---- MODULE Spec2Model ----
(***************************************************************************)
(* Session registry of the database MCP server (src/src/types/session.ts): *)
(* lazily created bundles of backend client handles, their cleanup and the *)
(* age-based sweep; the tool and resource handlers that use it             *)
(* (src/src/tools, src/src/resources) and the HTTP routes and the SIGINT   *)
(* handler of src/src/index.ts.  Every async function is a task whose      *)
(* steps are the stretches of code between two awaits; the JavaScript      *)
(* event loop runs one such stretch at a time.                             *)
(***************************************************************************)
EXTENDS Integers, Sequences, FiniteSets, TLC

\* ---- bounds of the model ----
MaxTasks == 2        \* async calls that may be in flight at once
MaxObjs == 2         \* session objects ever constructed
MaxEnabled == 1      \* enabled backends of the configurations of overlapping calls
MaxEnabledSeq == 2   \* enabled backends of the configurations of sequential calls
MaxTime == 1         \* clock values 0..MaxTime
MaxAgeArg == 1       \* maxAgeMs arguments 0..MaxAgeArg

SessionIds == {"default", "s1"}
NoSid == "none"
Kinds == {"postgres", "redis", "mongodb", "influxdb"}
KindOrder == <<"postgres", "redis", "mongodb", "influxdb">>
ReturnStage == Len(KindOrder) + 1     \* the stage after the four backend blocks

Tasks == 1..MaxTasks
Objs == 1..MaxObjs

VARIABLES
  config,    \* DatabaseConfig: per kind, enabled flag and presence of parameters
  now,       \* the wall clock (new Date())
  registry,  \* sessions: Map<string, DatabaseSession>, 0 = no entry
  regOrder,  \* insertion order of the keys of the Map
  objs,      \* the DatabaseSession objects (and the clients object of each)
  handle,    \* driver side of every client handle: none (never constructed),
             \* connecting (its connection attempt is pending), failed (the
             \* attempt was rejected), open, closed
  tasks,     \* the async calls in flight
  lastRet,   \* per session id: object the latest getOrCreateSession returned,
             \* 0 when none has returned since the id was last removed
  lost,      \* session objects overwritten in the registry by sessions.set
  swept,     \* session objects whose entry cleanupExpiredSessions deleted
  exited,    \* process.exit has been called
  apiKey,    \* serverConfig.apiKey, "" when API_KEY is not set
  transports \* the keys of the transports object of HTTP mode

vars == <<config, now, registry, regOrder, objs, handle, tasks,
          lastRet, lost, swept, exited, apiKey, transports>>

NoTool == "none"
\* the text of a response: its format, its success field and whether it
\* carries an error message
NoPayload == [kind |-> "none", success |-> "absent", message |-> FALSE]
NoClients == [k \in Kinds |-> FALSE]
NoHandles == [k \in Kinds |-> "none"]
FreeObj == [status |-> "free", id |-> NoSid, createdAt |-> 0, clients |-> NoClients,
            cleaned |-> FALSE]
NoSnap == [reg |-> [s \in SessionIds |-> 0], order |-> <<>>, now |-> 0, maxAge |-> 0,
           objs |-> [o \in Objs |-> FreeObj], handle |-> [o \in Objs |-> NoHandles]]
\* kind/pc: the call and its position; sid/obj: the session id and object it
\* works on; expired: expiredSessions from the entry being cleaned on;
\* result/threw: what the finished call returned or that it raised;
\* tried/failed/logged/cthrew/second: the closes the cleanup() in progress has
\* called, those that raised, those whose error its catch blocks logged,
\* whether cleanup() itself raised, and whether the session
\* had already been cleaned up when it was called; pos: the entries of the Map
\* the iterator of the SIGINT handler has passed; snap: the program state at
\* the call of cleanupExpiredSessions
\* tool/tr/argsOk: the handler a request dispatches to, the transport session
\* it arrived on and whether its arguments have every required field;
\* cause/calls/payload/escaped: why the handler failed, the driver calls it
\* has made, the payload it returned and whether it raised to the transport;
\* method/key/status/used: of an HTTP request, its method and API_KEY header,
\* the status of its response and whether a transport handled it; hdr/init:
\* its mcp-session-id header and whether its body is an initialize request
IdleTask == [kind |-> "idle", pc |-> "idle", sid |-> NoSid, obj |-> 0,
             expired |-> <<>>, result |-> 0, threw |-> FALSE,
             tried |-> {}, failed |-> {}, logged |-> {}, cthrew |-> FALSE,
             second |-> FALSE, pos |-> 0,
             snap |-> NoSnap,
             tool |-> NoTool, tr |-> NoSid, argsOk |-> TRUE,
             cause |-> "none", calls |-> 0, payload |-> NoPayload,
             escaped |-> FALSE,
             method |-> "none", key |-> "", status |-> 0, used |-> FALSE,
             hdr |-> NoSid, init |-> FALSE]

InSeq(x, s) == \E i \in 1..Len(s) : s[i] = x
RemoveFrom(s, x) == SelectSeq(s, LAMBDA y : y # x)
IndexOf(s, x) == IF InSeq(x, s) THEN CHOOSE i \in 1..Len(s) : s[i] = x ELSE 0

\* ---- initializeSessionClients ----

ShouldConnectIgnoringEnabled(k) == config[k].params

\* the guard of each backend block
ShouldConnect(k) == config[k].enabled /\ config[k].params

OnConnectErrorRethrow(k) == "throw"

OnConnectErrorRethrowPostgres(k) == IF k = "postgres" THEN "throw" ELSE "log"

\* what the catch block of a connection attempt does with the error
OnConnectError(k) == "log"

NextStageAbortOnFailure(i, ok) == IF ok THEN i + 1 ELSE ReturnStage

\* the block that runs after the block of stage i has finished
NextStage(i, ok) == i + 1

FirstAwaitMongoBeforeRedis(i) ==
  IF i <= 1 /\ ShouldConnect("postgres") THEN 1
  ELSE IF i <= 3 /\ ShouldConnect("mongodb") THEN 3
  ELSE IF i <= 2 /\ ShouldConnect("redis") THEN 2
  ELSE IF i <= 4 THEN 4
  ELSE ReturnStage

\* first stage at or after i whose block suspends at an await
\* (postgres.connect, redis.ping, mongodb.connect); 4 = the InfluxDB block,
\* which has no await; ReturnStage = return clients
FirstAwait(i) ==
  IF i <= 1 /\ ShouldConnect("postgres") THEN 1
  ELSE IF i <= 2 /\ ShouldConnect("redis") THEN 2
  ELSE IF i <= 3 /\ ShouldConnect("mongodb") THEN 3
  ELSE IF i <= 4 THEN 4
  ELSE ReturnStage

ConnPc(i) == IF i = 1 THEN "conn_postgres"
             ELSE IF i = 2 THEN "conn_redis" ELSE "conn_mongodb"
StageOfPc(pc) == IF pc = "conn_postgres" THEN 1
                 ELSE IF pc = "conn_redis" THEN 2 ELSE 3

\* effect of one finished connection attempt of kind k on object o
AttemptObjs(ob, o, k, ok) ==
  IF ok THEN [ob EXCEPT ![o].clients[k] = TRUE] ELSE ob
AttemptHandle(h, o, k, ok) ==
  [h EXCEPT ![o][k] = IF ok THEN "open" ELSE "failed"]

\* the constructor and the connect / ping call of kind k: the attempt is pending
StartAttempt(h, o, k) == [h EXCEPT ![o][k] = "connecting"]

\* run initializeSessionClients of task t from stage i up to its next await
\* (tk, ob, h: tasks, objs and handle as left by the code run so far)
ContinueInit(tk, t, o, i, ob, h, influxOk) ==
  LET j == FirstAwait(i) IN
  IF j <= 3
  THEN /\ tasks' = [tk EXCEPT ![t].pc = ConnPc(j)]
       /\ objs' = ob /\ handle' = StartAttempt(h, o, KindOrder[j])
  ELSE IF j = 4 /\ ShouldConnect("influxdb")
  THEN /\ objs' = AttemptObjs(ob, o, "influxdb", influxOk)
       /\ handle' = AttemptHandle(h, o, "influxdb", influxOk)
       /\ IF ~influxOk /\ OnConnectError("influxdb") = "throw"
          THEN tasks' = [tk EXCEPT ![t].pc = "done", ![t].threw = TRUE]
          ELSE tasks' = [tk EXCEPT ![t].pc = "ret_create"]
  ELSE /\ tasks' = [tk EXCEPT ![t].pc = "ret_create"]
       /\ objs' = ob /\ handle' = h

\* ---- getOrCreateSession ----

SessionFoundNever(sid) == FALSE

SessionFoundIfHealthy(sid) ==
  registry[sid] # 0 /\ \E k \in Kinds : handle[registry[sid]][k] = "open"

\* sessions.get(sessionId) returned an entry
SessionFound(sid) == registry[sid] # 0

StoreIfAbsent(sid, o) == IF registry[sid] # 0 THEN registry[sid] ELSE o

\* the value sessions.set stores under sid
StoreValue(sid, o) == o

\* the finished call was awaited by a handler that has not resumed yet
Awaited(t) ==
  \/ tasks[t].kind = "goc" /\ tasks[t].tool # NoTool
  \/ tasks[t].kind = "http" /\ tasks[t].status = 0

\* a finished call hands its result to its caller before anything else runs
NoneDone == ~exited /\ \A u \in Tasks : tasks[u].pc # "done"

LowestIdle(t) == /\ NoneDone
                 /\ tasks[t].kind = "idle"
                 /\ \A u \in Tasks : u < t => tasks[u].kind # "idle"

FreshObj == CHOOSE o \in Objs : /\ objs[o].status = "free"
                                /\ \A p \in Objs : p < o => objs[p].status # "free"

\* getOrCreateSession up to its first await: sessions.get and, on a miss, the
\* start of createDatabaseSession (base: the record of the caller)
GetOrCreate(t, sid, base, influxOk) ==
  IF SessionFound(sid)
  THEN /\ tasks' = [tasks EXCEPT ![t] = [base EXCEPT !.kind = "goc",
                      !.pc = "done", !.sid = sid, !.result = registry[sid]]]
       /\ lastRet' = [lastRet EXCEPT ![sid] = registry[sid]]
       /\ UNCHANGED <<objs, handle>>
  ELSE /\ \E o \in Objs : objs[o].status = "free"
       /\ LET o == FreshObj IN
          ContinueInit([tasks EXCEPT ![t] = [base EXCEPT !.kind = "goc",
                                               !.sid = sid, !.obj = o]],
                       t, o, 1,
                       [objs EXCEPT ![o] = [FreeObj EXCEPT !.status = "building",
                                                           !.id = sid]],
                       handle, influxOk)
       /\ UNCHANGED lastRet

\* a caller other than a handler calls getOrCreateSession
GetOrCreateSession(t, sid, influxOk) ==
  /\ LowestIdle(t)
  /\ GetOrCreate(t, sid, IdleTask, influxOk)
  /\ UNCHANGED <<apiKey, transports, config, now, registry, regOrder, lost, swept, exited>>

\* a pending postgres.connect / redis.ping / mongodb.connect resolves (ok) or
\* rejects; the try block stores the handle or the catch block logs, and
\* initializeSessionClients runs on to its next await
ConnectDone(t, ok, influxOk) ==
  /\ NoneDone
  /\ tasks[t].pc \in {"conn_postgres", "conn_redis", "conn_mongodb"}
  /\ LET i == StageOfPc(tasks[t].pc)
         k == KindOrder[i]
         o == tasks[t].obj
     IN IF ~ok /\ OnConnectError(k) = "throw"
        THEN /\ tasks' = [tasks EXCEPT ![t].pc = "done", ![t].threw = TRUE]
             /\ UNCHANGED <<objs, handle>>
        ELSE ContinueInit(tasks, t, o, NextStage(i, ok),
                          AttemptObjs(objs, o, k, ok),
                          AttemptHandle(handle, o, k, ok), influxOk)
  /\ UNCHANGED <<apiKey, transports, config, now, registry, regOrder, lastRet, lost, swept, exited>>

CreateReturnedEarly(pc) ==
  pc \in {"ret_create", "conn_postgres", "conn_redis", "conn_mongodb"}

\* await createDatabaseSession(...) has resolved: initializeSessionClients ran
\* to its return statement
CreateReturned(pc) == pc = "ret_create"

\* createDatabaseSession returns the session object and getOrCreateSession
\* stores and returns it
StoreSession(t) ==
  /\ NoneDone
  /\ CreateReturned(tasks[t].pc)
  /\ LET o == tasks[t].obj
         sid == tasks[t].sid
         v == StoreValue(sid, o)
     IN /\ objs' = [objs EXCEPT ![o].status = "built", ![o].createdAt = now]
        /\ registry' = [registry EXCEPT ![sid] = v]
        /\ regOrder' = IF InSeq(sid, regOrder) THEN regOrder
                       ELSE Append(regOrder, sid)
        /\ lost' = IF registry[sid] # 0 /\ registry[sid] # v
                   THEN lost \cup {registry[sid]} ELSE lost
        /\ tasks' = [tasks EXCEPT ![t].pc = "done", ![t].result = o]
        /\ lastRet' = [lastRet EXCEPT ![sid] = o]
  /\ UNCHANGED <<apiKey, transports, config, now, handle, swept, exited>>

\* ---- session.cleanup ----

Closable == {"postgres", "redis", "mongodb"}

OnCloseErrorRethrow(h, o, k) == "throw"

OnCloseErrorOfClosedRethrow(h, o, k) ==
  IF h[o][k] = "closed" THEN "throw" ELSE "log"

\* what the catch block of a close does with the error
\* (h: the handles before the close was called)
OnCloseError(h, o, k) == "log"

\* postgres.end / redis.disconnect / mongodb.close on the handle of o
CloseHandle(h, o, k, ok) == IF ok THEN [h EXCEPT ![o][k] = "closed"] ELSE h
\* the close is called; when it raises, the catch block logs the error
CloseNote(tk, t, k, ok, caught) ==
  [tk EXCEPT ![t].tried = @ \cup {k},
             ![t].failed = IF ok THEN @ ELSE @ \cup {k},
             ![t].logged = IF ok \/ ~caught THEN @ ELSE @ \cup {k}]

ContinueCleanupNothing(tk, t, o, i, ob, h, redisOk) ==
  /\ tasks' = [tk EXCEPT ![t].pc = "ret_cleanup"]
  /\ objs' = [ob EXCEPT ![o].cleaned = TRUE]
  /\ handle' = h

ContinueCleanupDropSlots(tk, t, o, i, ob, h, redisOk) ==
  IF i <= 1 /\ ob[o].clients["postgres"]
  THEN /\ tasks' = [tk EXCEPT ![t].pc = "close_postgres"]
       /\ objs' = ob /\ handle' = h
  ELSE LET doRedis == i <= 2 /\ ob[o].clients["redis"]
           h2 == IF doRedis THEN CloseHandle(h, o, "redis", redisOk) ELSE h
           tk2 == IF doRedis THEN CloseNote(tk, t, "redis", redisOk, TRUE) ELSE tk
       IN /\ handle' = h2
          /\ IF i <= 3 /\ ob[o].clients["mongodb"]
             THEN /\ tasks' = [tk2 EXCEPT ![t].pc = "close_mongodb"]
                  /\ objs' = ob
             ELSE /\ tasks' = [tk2 EXCEPT ![t].pc = "ret_cleanup"]
                  /\ objs' = [ob EXCEPT ![o].cleaned = TRUE,
                                        ![o].clients = NoClients]

\* cleanup() of object o, called by task t, from block i up to its next await
\* (1: postgres, awaited; 2: redis, not awaited; 3: mongodb, awaited; 4: return)
ContinueCleanup(tk, t, o, i, ob, h, redisOk) ==
  IF i <= 1 /\ ob[o].clients["postgres"]
  THEN /\ tasks' = [tk EXCEPT ![t].pc = "close_postgres"]
       /\ objs' = ob /\ handle' = h
  ELSE LET doRedis == i <= 2 /\ ob[o].clients["redis"]
           caught == OnCloseError(h, o, "redis") = "log"
           h2 == IF doRedis THEN CloseHandle(h, o, "redis", redisOk) ELSE h
           tk2 == IF doRedis THEN CloseNote(tk, t, "redis", redisOk, caught) ELSE tk
       IN /\ handle' = h2
          /\ IF doRedis /\ ~redisOk /\ ~caught
             THEN /\ tasks' = [tk2 EXCEPT ![t].pc = "ret_cleanup",
                                          ![t].cthrew = TRUE]
                  /\ objs' = ob
             ELSE IF i <= 3 /\ ob[o].clients["mongodb"]
             THEN /\ tasks' = [tk2 EXCEPT ![t].pc = "close_mongodb"]
                  /\ objs' = ob
             ELSE /\ tasks' = [tk2 EXCEPT ![t].pc = "ret_cleanup"]
                  /\ objs' = [ob EXCEPT ![o].cleaned = TRUE]

\* a pending postgres.end / mongodb.close resolves (ok) or rejects
CloseDone(t, ok, redisOk) ==
  /\ NoneDone
  /\ tasks[t].pc \in {"close_postgres", "close_mongodb"}
  /\ LET k == IF tasks[t].pc = "close_postgres" THEN "postgres" ELSE "mongodb"
         i == IF tasks[t].pc = "close_postgres" THEN 1 ELSE 3
         o == tasks[t].obj
         caught == OnCloseError(handle, o, k) = "log"
         tk2 == CloseNote(tasks, t, k, ok, caught)
     IN IF ~ok /\ ~caught
        THEN /\ tasks' = [tk2 EXCEPT ![t].pc = "ret_cleanup", ![t].cthrew = TRUE]
             /\ handle' = CloseHandle(handle, o, k, ok)
             /\ UNCHANGED objs
        ELSE ContinueCleanup(tk2, t, o, i + 1, objs,
                             CloseHandle(handle, o, k, ok), redisOk)
  /\ UNCHANGED <<apiKey, transports, config, now, registry, regOrder, lastRet, lost, swept, exited>>

\* a caller looks a session up and calls its cleanup()
Cleanup(t, sid, redisOk) ==
  /\ LowestIdle(t)
  /\ registry[sid] # 0
  /\ LET o == registry[sid] IN
     ContinueCleanup([tasks EXCEPT ![t] = [IdleTask EXCEPT !.kind = "cleanup",
                        !.sid = sid, !.obj = o, !.second = objs[o].cleaned]],
                     t, o, 1, objs, handle, redisOk)
  /\ UNCHANGED <<apiKey, transports, config, now, registry, regOrder, lastRet, lost, swept, exited>>

\* the promise of that cleanup() settles
CleanupReturn(t) ==
  /\ NoneDone
  /\ tasks[t].kind = "cleanup" /\ tasks[t].pc = "ret_cleanup"
  /\ tasks' = [tasks EXCEPT ![t].pc = "done", ![t].threw = tasks[t].cthrew]
  /\ UNCHANGED <<apiKey, transports, config, now, registry, regOrder, objs, handle,
                 lastRet, lost, swept, exited>>

\* ---- cleanupExpiredSessions ----

\* a Map iterator that has passed the entry at index p of the Map moves back by
\* one when that entry is deleted
EntryDeleted(tk, p) ==
  [u \in Tasks |-> IF p > 0 /\ tk[u].pos >= p
                   THEN [tk[u] EXCEPT !.pos = @ - 1] ELSE tk[u]]

IsExpiredInclusive(created, nowMs, maxAgeMs) == nowMs - created >= maxAgeMs

\* the test of the first loop
IsExpired(created, nowMs, maxAgeMs) == nowMs - created > maxAgeMs

RestAfterStopOnFailure(exp, failed) == IF failed # {} THEN <<>> ELSE Tail(exp)

\* what is left of expiredSessions after the entry at its head
RestAfter(exp, failed) == Tail(exp)

RECURSIVE DropAbsent(_, _)
\* the iterations whose sessions.get finds nothing do nothing
DropAbsent(exp, reg) ==
  IF exp = <<>> THEN <<>>
  ELSE IF reg[Head(exp)] = 0 THEN DropAbsent(Tail(exp), reg)
  ELSE exp

\* the second loop from the head of exp up to its next await
SweepNext(tk, t, exp, reg, ob, h, redisOk) ==
  LET rest == DropAbsent(exp, reg) IN
  IF rest = <<>>
  THEN /\ tasks' = [tk EXCEPT ![t].pc = "done", ![t].expired = <<>>,
                              ![t].sid = NoSid, ![t].obj = 0]
       /\ objs' = ob /\ handle' = h
  ELSE LET sid == Head(rest)
           o == reg[sid]
       IN ContinueCleanup([tk EXCEPT ![t].sid = sid, ![t].obj = o,
                             ![t].expired = rest, ![t].tried = {},
                             ![t].failed = {}, ![t].logged = {},
                             ![t].cthrew = FALSE,
                             ![t].second = ob[o].cleaned],
                          t, o, 1, ob, h, redisOk)

\* the call: the first loop collects the expired ids, the second starts
CleanupExpiredSessions(t, maxAgeMs, redisOk) ==
  /\ LowestIdle(t)
  /\ LET exp == SelectSeq(regOrder,
                  LAMBDA s : IsExpired(objs[registry[s]].createdAt, now, maxAgeMs))
         snap == [reg |-> registry, order |-> regOrder, now |-> now,
                  maxAge |-> maxAgeMs,
                  objs |-> objs, handle |-> handle]
     IN SweepNext([tasks EXCEPT ![t] = [IdleTask EXCEPT !.kind = "sweep",
                                          !.snap = snap]],
                  t, exp, registry, objs, handle, redisOk)
  /\ UNCHANGED <<apiKey, transports, config, now, registry, regOrder, lastRet, lost, swept, exited>>

\* await session.cleanup() returns: delete the entry (or log), next iteration
SweepResume(t, redisOk) ==
  /\ NoneDone
  /\ tasks[t].kind = "sweep" /\ tasks[t].pc = "ret_cleanup"
  /\ LET sid == tasks[t].sid
         ok == ~tasks[t].cthrew
         reg2 == IF ok THEN [registry EXCEPT ![sid] = 0] ELSE registry
     IN /\ registry' = reg2
        /\ regOrder' = IF ok THEN RemoveFrom(regOrder, sid) ELSE regOrder
        /\ swept' = IF ok /\ registry[sid] # 0 THEN swept \cup {registry[sid]}
                    ELSE swept
        /\ lastRet' = IF ok THEN [lastRet EXCEPT ![sid] = 0] ELSE lastRet
        /\ SweepNext(IF ok THEN EntryDeleted(tasks, IndexOf(regOrder, sid))
                     ELSE tasks,
                     t, RestAfter(tasks[t].expired, tasks[t].failed),
                     reg2, objs, handle, redisOk)
  /\ UNCHANGED <<apiKey, transports, config, now, lost, exited>>

\* ---- the SIGINT handler ----

ShutdownMoreUnlessFailed(tk, t) ==
  tk[t].pos < Len(regOrder) /\ tk[t].failed = {}

\* the for...of loop of the handler has another entry: the try/catch around
\* await session.cleanup() is inside the loop
ShutdownMore(tk, t) == tk[t].pos < Len(regOrder)

\* the loop over the Map from its iterator position up to its next await; after
\* the last entry, sessions.clear() and process.exit(0)
ShutdownNext(tk, t, redisOk) ==
  IF ShutdownMore(tk, t)
  THEN LET sid == regOrder[tk[t].pos + 1]
           o == registry[sid]
       IN /\ ContinueCleanup([tk EXCEPT ![t].sid = sid, ![t].obj = o,
                                ![t].pos = @ + 1, ![t].tried = {},
                                ![t].failed = {}, ![t].logged = {},
                                ![t].cthrew = FALSE,
                                ![t].second = objs[o].cleaned],
                             t, o, 1, objs, handle, redisOk)
          /\ UNCHANGED <<registry, regOrder, lastRet, exited>>
  ELSE /\ tasks' = [tk EXCEPT ![t].pc = "done", ![t].sid = NoSid, ![t].obj = 0]
       /\ registry' = [s \in SessionIds |-> 0]
       /\ regOrder' = <<>>
       /\ lastRet' = [s \in SessionIds |-> 0]
       /\ exited' = TRUE
       /\ UNCHANGED <<objs, handle>>

\* SIGINT arrives
Shutdown(t, redisOk) ==
  /\ LowestIdle(t)
  /\ ShutdownNext([tasks EXCEPT ![t] = [IdleTask EXCEPT !.kind = "shutdown"]],
                  t, redisOk)
  /\ UNCHANGED <<apiKey, transports, config, now, lost, swept>>

\* await session.cleanup() returns in the handler: next entry
ShutdownResume(t, redisOk) ==
  /\ NoneDone
  /\ tasks[t].kind = "shutdown" /\ tasks[t].pc = "ret_cleanup"
  /\ ShutdownNext(tasks, t, redisOk)
  /\ UNCHANGED <<apiKey, transports, config, now, lost, swept>>

\* ---- tool and resource handlers ----

\* one handler of each shape: a tool that returns the JSON envelope, a tool
\* with two driver calls, a tool that parses a JSON argument, a resource that
\* reads a backend, the status resource, and a resource that reads the Map
ToolHandlers == {"postgres_query", "redis_set_key", "mongodb_insert_document"}
ResourceHandlers == {"postgres-databases", "connection-status", "sessions-active"}
Handlers == ToolHandlers \cup ResourceHandlers

\* the transport sessions a request can arrive on; NoSid: the stdio transport
TransportIds == SessionIds \ {"default"}

\* the slot the handler uses
Backend(h) ==
  IF h = "redis_set_key" THEN "redis"
  ELSE IF h = "mongodb_insert_document" THEN "mongodb"
  ELSE "postgres"

\* registerAllCapabilities and registerDatabaseResources registered the handler
Registered(h) ==
  IF h = "redis_set_key" THEN config["redis"].enabled
  ELSE IF h = "mongodb_insert_document" THEN config["mongodb"].enabled
  ELSE TRUE

\* the handler has an inputSchema, all of whose fields here are required
HasInput(h) == h \in ToolHandlers

ValidatesAlways(h, argsOk) == TRUE

\* the arguments pass the inputSchema, so the handler is called
Validates(h, argsOk) == HasInput(h) => argsOk

\* the handler calls getOrCreateSession
Resolves(h) == h # "sessions-active"

ToolSessionIdOfTransport(tr) == IF tr = NoSid THEN "default" ELSE tr

\* const sessionId = 'default'
ToolSessionId(tr) == "default"

\* awaited driver calls of the handler: query; select and set; insertOne
DriverCalls(h) ==
  IF h = "redis_set_key" THEN 2
  ELSE IF h \in {"connection-status", "sessions-active"} THEN 0
  ELSE 1

\* the handler calls JSON.parse on an argument
Parses(h) == h = "mongodb_insert_document"

OnEmptySlotReconnect(h) == "reconnect"

OnEmptySlotProceed(h) == "proceed"

\* what the handler does when the slot it needs is empty: throw into its own
\* catch block, or return an error text at once
OnEmptySlot(h) == IF h \in ToolHandlers THEN "throw" ELSE "report"

OnHandlerErrorRethrow(h) == "throw"

\* what the catch block of the handler does: return a failure payload, or
\* throw an McpError
OnHandlerError(h) == IF h = "sessions-active" THEN "throw" ELSE "payload"

\* the text the handler returns when its operation succeeded
SuccessPayload(h) ==
  IF h = "postgres_query"
  THEN [kind |-> "json", success |-> "true", message |-> FALSE]
  ELSE IF h \in ToolHandlers
  THEN [kind |-> "text", success |-> "absent", message |-> FALSE]
  ELSE [kind |-> "json", success |-> "absent", message |-> FALSE]

\* the text the handler returns when its operation failed
FailurePayload(h) ==
  IF h = "postgres_query"
  THEN [kind |-> "json", success |-> "false", message |-> TRUE]
  ELSE IF h \in ToolHandlers
  THEN [kind |-> "text", success |-> "absent", message |-> TRUE]
  ELSE [kind |-> "json", success |-> "absent", message |-> TRUE]

\* the response to a request whose arguments fail the inputSchema
InvalidPayload == [kind |-> "sdk", success |-> "absent", message |-> TRUE]

\* a driver call on the handle can resolve: the handle is open
DriverUsable(h, o, k) == h[o][k] = "open"

\* the handler returns payload p
Respond(tk, t, cause, p) ==
  [tk EXCEPT ![t].kind = "tool", ![t].pc = "done", ![t].cause = cause,
             ![t].payload = p]

\* an error reaches the catch block of handler h
Fail(tk, t, h, cause) ==
  IF OnHandlerError(h) = "payload"
  THEN Respond(tk, t, cause, FailurePayload(h))
  ELSE [tk EXCEPT ![t].kind = "tool", ![t].pc = "done", ![t].cause = cause,
                  ![t].escaped = TRUE]

\* a tool call or resource read is dispatched: the inputSchema check and the
\* handler up to its first await
ToolCall(t, h, argsOk, tr, influxOk) ==
  /\ LowestIdle(t)
  /\ Registered(h)
  /\ HasInput(h) \/ argsOk
  /\ tr = NoSid \/ tr \in transports
  /\ LET base == [IdleTask EXCEPT !.tool = h, !.tr = tr, !.argsOk = argsOk]
     IN IF ~Validates(h, argsOk)
        THEN /\ tasks' = Respond([tasks EXCEPT ![t] = base], t, "invalid",
                                 InvalidPayload)
             /\ UNCHANGED <<objs, handle, lastRet>>
        ELSE IF ~Resolves(h)
        THEN /\ tasks' = Respond([tasks EXCEPT ![t] = base], t, "none",
                                 SuccessPayload(h))
             /\ UNCHANGED <<objs, handle, lastRet>>
        ELSE GetOrCreate(t, ToolSessionId(tr), base, influxOk)
  /\ UNCHANGED <<apiKey, transports, config, now, registry, regOrder, lost, swept,
                 exited>>

\* await getOrCreateSession returns in the handler: the slot check, the
\* JSON.parse and the first driver call
ToolResume(t, parseOk) ==
  /\ ~exited
  /\ \A u \in Tasks \ {t} : tasks[u].pc # "done"
  /\ tasks[t].kind = "goc" /\ tasks[t].pc = "done" /\ tasks[t].tool # NoTool
  /\ LET h == tasks[t].tool
         o == tasks[t].result
         k == Backend(h)
         call == [tasks EXCEPT ![t].kind = "tool", ![t].pc = "call",
                               ![t].calls = 1]
     IN IF tasks[t].threw
        THEN /\ tasks' = Fail(tasks, t, h, "resolve")
             /\ UNCHANGED <<objs, handle>>
        ELSE IF DriverCalls(h) = 0
        THEN /\ tasks' = Respond(tasks, t, "none", SuccessPayload(h))
             /\ UNCHANGED <<objs, handle>>
        ELSE IF ~objs[o].clients[k] /\ OnEmptySlot(h) = "throw"
        THEN /\ tasks' = Fail(tasks, t, h, "slot")
             /\ UNCHANGED <<objs, handle>>
        ELSE IF ~objs[o].clients[k] /\ OnEmptySlot(h) = "report"
        THEN /\ tasks' = Respond(tasks, t, "slot", FailurePayload(h))
             /\ UNCHANGED <<objs, handle>>
        ELSE IF Parses(h) /\ ~parseOk
        THEN /\ tasks' = Fail(tasks, t, h, "parse")
             /\ UNCHANGED <<objs, handle>>
        ELSE /\ tasks' = call
             /\ IF objs[o].clients[k] \/ OnEmptySlot(h) # "reconnect"
                THEN UNCHANGED <<objs, handle>>
                ELSE /\ objs' = [objs EXCEPT ![o].clients[k] = TRUE]
                     /\ handle' = [handle EXCEPT ![o][k] = "open"]
  /\ UNCHANGED <<apiKey, transports, config, now, registry, regOrder, lastRet,
                 lost, swept, exited>>

\* a pending driver call of a handler resolves (ok) or rejects
DriverDone(t, ok) ==
  /\ NoneDone
  /\ tasks[t].kind = "tool" /\ tasks[t].pc = "call"
  /\ LET h == tasks[t].tool IN
     /\ ok => DriverUsable(handle, tasks[t].result, Backend(h))
     /\ tasks' = IF ~ok THEN Fail(tasks, t, h, "driver")
                 ELSE IF tasks[t].calls < DriverCalls(h)
                 THEN [tasks EXCEPT ![t].calls = @ + 1]
                 ELSE Respond(tasks, t, "none", SuccessPayload(h))
  /\ UNCHANGED <<apiKey, transports, config, now, registry, regOrder, objs, handle,
                 lastRet, lost, swept, exited>>

\* ---- HTTP mode ----

\* the values of the API_KEY header of a request, "" when it has none
Keys == {"", "k1", "k2"}
\* the values of its mcp-session-id header, NoSid when it has none
SidHeaders == SessionIds \cup {NoSid}

AuthorizedIfPresent(key) == apiKey = "" \/ key # ""

\* validateApiKey calls next()
Authorized(key) == apiKey = "" \/ (key # "" /\ key = apiKey)

HttpTask(method, key, sid) ==
  [IdleTask EXCEPT !.kind = "http", !.method = method, !.key = key, !.sid = sid,
                   !.hdr = sid]
\* a POST request, whose body the route looks at
PostTask(method, key, sid, isInit) ==
  [HttpTask(method, key, sid) EXCEPT !.init = method = "POST" /\ isInit]

PostBranchInitAnyHeader(sid, isInit) ==
  IF sid # NoSid /\ sid \in transports THEN "reuse"
  ELSE IF isInit THEN "init"
  ELSE "bad"

\* the branch the POST route takes: sessionId && transports[sessionId], else
\* !sessionId && isInitializeRequest(req.body), else the 400 answer
PostBranch(sid, isInit) ==
  IF sid # NoSid /\ sid \in transports THEN "reuse"
  ELSE IF sid = NoSid /\ isInit THEN "init"
  ELSE "bad"
\* the response is sent and the route handler returns
HttpDone(r, status, used) ==
  [r EXCEPT !.pc = "done", !.status = status, !.used = used]

\* validateApiKey answers 401 and the route handler is not called
HttpUnauthorized(t, method, key, sid) ==
  /\ LowestIdle(t)
  /\ ~Authorized(key)
  /\ tasks' = [tasks EXCEPT ![t] = HttpDone(HttpTask(method, key, sid), 401, FALSE)]
  /\ UNCHANGED <<apiKey, transports, config, now, registry, regOrder, objs, handle,
                 lastRet, lost, swept, exited>>

\* the id randomUUID returns: one that names no session and no transport
NewSessionId ==
  CHOOSE s \in TransportIds : registry[s] = 0 /\ s \notin transports

\* the request has a session header that names no transport, or has none and
\* is no initialize request (POST), or has none (GET, DELETE): 400
HttpBadRequest(t, method, key, sid, isInit) ==
  /\ LowestIdle(t)
  /\ Authorized(key)
  /\ IF method = "POST" THEN PostBranch(sid, isInit) = "bad"
     ELSE sid \notin transports
  /\ tasks' = [tasks EXCEPT ![t] =
                 HttpDone(PostTask(method, key, sid, isInit), 400, FALSE)]
  /\ UNCHANGED <<apiKey, transports, config, now, registry, regOrder, objs, handle,
                 lastRet, lost, swept, exited>>

\* POST of an initialize request without session header, up to the first await
\* of initializeSessionClients(newSessionId)
HttpPostInit(t, key, hdr, isInit, influxOk) ==
  /\ LowestIdle(t)
  /\ Authorized(key)
  /\ PostBranch(hdr, isInit) = "init"
  /\ \E s \in TransportIds : registry[s] = 0 /\ s \notin transports
  /\ \E o \in Objs : objs[o].status = "free"
  /\ LET o == FreshObj
         sid == NewSessionId
     IN ContinueInit([tasks EXCEPT ![t] = [HttpTask("POST", key, sid)
                                            EXCEPT !.obj = o, !.hdr = hdr,
                                                   !.init = isInit]],
                     t, o, 1,
                     [objs EXCEPT ![o] = [FreeObj EXCEPT !.status = "building",
                                                         !.id = sid]],
                     handle, influxOk)
  /\ UNCHANGED <<apiKey, transports, config, now, registry, regOrder, lastRet,
                 lost, swept, exited>>

\* await initializeSessionClients returns: createStatefulMCPServer (which
\* throws when the session is not in the Map: the rejection of the route
\* handler is unhandled and the process exits), the new transport,
\* server.connect and transport.handleRequest, which registers the transport
\* when it has handled the initialize request (ok)
HttpResume(t, ok) ==
  /\ ~exited
  /\ \A u \in Tasks \ {t} : tasks[u].pc # "done"
  /\ tasks[t].kind = "http" /\ tasks[t].pc = "done" /\ tasks[t].status = 0
  /\ IF registry[tasks[t].sid] = 0
     THEN /\ tasks' = [tasks EXCEPT ![t].threw = TRUE]
          /\ exited' = TRUE
          /\ UNCHANGED transports
     ELSE /\ tasks' = [tasks EXCEPT ![t].status = IF ok THEN 200 ELSE 500,
                                    ![t].used = TRUE]
          /\ transports' = IF ok THEN transports \cup {tasks[t].sid}
                           ELSE transports
          /\ UNCHANGED exited
  /\ UNCHANGED <<apiKey, config, now, registry, regOrder, objs, handle,
                 lastRet, lost, swept>>

\* POST or GET with the session header of a registered transport:
\* transport.handleRequest; the POST route catches its error and answers 500
HttpHandle(t, method, key, sid, isInit, ok) ==
  /\ LowestIdle(t)
  /\ Authorized(key)
  /\ IF method = "POST" THEN PostBranch(sid, isInit) = "reuse"
     ELSE sid \in transports /\ ~isInit
  /\ ok \/ method = "POST"
  /\ tasks' = [tasks EXCEPT ![t] =
                 HttpDone(PostTask(method, key, sid, isInit),
                          IF ok THEN 200 ELSE 500, TRUE)]
  /\ UNCHANGED <<apiKey, transports, config, now, registry, regOrder, objs, handle,
                 lastRet, lost, swept, exited>>

OnCloseEntriesClear(reg, ord, sid) ==
  [reg |-> [s \in SessionIds |-> 0], ord |-> <<>>]

\* the Map after sessions.delete(sessionId) of the onclose callback
OnCloseEntries(reg, ord, sid) ==
  [reg |-> [reg EXCEPT ![sid] = 0], ord |-> RemoveFrom(ord, sid)]

\* DELETE with the session header of a registered transport: handleRequest
\* closes the transport and its onclose callback runs: the transport is
\* removed, cleanup() of the session is started and not awaited, and the
\* entry is deleted
HttpDelete(t, key, sid, redisOk) ==
  /\ LowestIdle(t)
  /\ Authorized(key)
  /\ sid \in transports
  /\ transports' = transports \ {sid}
  /\ LET o == registry[sid]
         done == [tasks EXCEPT ![t] =
                    HttpDone(HttpTask("DELETE", key, sid), 200, TRUE)]
     IN IF o = 0
        THEN /\ tasks' = done
             /\ UNCHANGED <<registry, regOrder, objs, handle, lastRet>>
        ELSE /\ \E u \in Tasks \ {t} : tasks[u].kind = "idle"
             /\ LET u == CHOOSE v \in Tasks \ {t} : tasks[v].kind = "idle" IN
                ContinueCleanup([EntryDeleted(done, IndexOf(regOrder, sid))
                                   EXCEPT ![u] = [IdleTask EXCEPT
                                     !.kind = "cleanup", !.sid = sid, !.obj = o,
                                     !.second = objs[o].cleaned]],
                                u, o, 1, objs, handle, redisOk)
             /\ registry' = OnCloseEntries(registry, regOrder, sid).reg
             /\ regOrder' = OnCloseEntries(registry, regOrder, sid).ord
             /\ lastRet' = [lastRet EXCEPT ![sid] = 0]
  /\ UNCHANGED <<apiKey, config, now, lost, swept, exited>>

\* ---- environment ----

\* time passes
Tick ==
  /\ NoneDone
  /\ now < MaxTime
  /\ now' = now + 1
  /\ UNCHANGED <<apiKey, transports, config, registry, regOrder, objs, handle, tasks,
                 lastRet, lost, swept, exited>>

\* the caller of a finished call takes its result
Retire(t) ==
  /\ ~exited
  /\ tasks[t].pc = "done"
  /\ ~Awaited(t)
  /\ tasks' = [tasks EXCEPT ![t] = IdleTask]
  /\ UNCHANGED <<apiKey, transports, config, now, registry, regOrder, objs, handle,
                 lastRet, lost, swept, exited>>

\* every configuration: per backend the enabled flag and whether the url (and
\* for InfluxDB the token) is set
AllConfigs == [Kinds -> [enabled : BOOLEAN, params : BOOLEAN]]

\* the configurations with all parameters set and at most n backends enabled
FewConfigs(n) ==
  {c \in AllConfigs :
     /\ \A k \in Kinds : c[k].params
     /\ Cardinality({k \in Kinds : c[k].enabled}) <= n}

Start ==
  /\ now = 0
  /\ registry = [s \in SessionIds |-> 0]
  /\ regOrder = <<>>
  /\ objs = [o \in Objs |-> FreeObj]
  /\ handle = [o \in Objs |-> NoHandles]
  /\ tasks = [t \in Tasks |-> IdleTask]
  /\ lastRet = [s \in SessionIds |-> 0]
  /\ lost = {}
  /\ swept = {}
  /\ exited = FALSE
  /\ transports = {}

Init == config \in FewConfigs(MaxEnabled) /\ apiKey = "k1" /\ Start

InitSeq == config \in FewConfigs(MaxEnabledSeq) /\ apiKey = "k1" /\ Start

InitAll == config \in AllConfigs /\ apiKey = "k1" /\ Start

\* the calls the callers make and the steps of the calls in flight; ids: the
\* session ids the callers name; alone: a call starts only when no other call
\* is in flight
CanStart(alone) == alone => \A u \in Tasks : tasks[u].kind = "idle"

Step(ids, alone) ==
  \/ \E t \in Tasks, sid \in ids, influxOk \in BOOLEAN :
       CanStart(alone) /\ GetOrCreateSession(t, sid, influxOk)
  \/ \E t \in Tasks, ok \in BOOLEAN, influxOk \in BOOLEAN :
       ConnectDone(t, ok, influxOk)
  \/ \E t \in Tasks : StoreSession(t)
  \/ \E t \in Tasks, sid \in ids, redisOk \in BOOLEAN :
       CanStart(alone) /\ Cleanup(t, sid, redisOk)
  \/ \E t \in Tasks, ok \in BOOLEAN, redisOk \in BOOLEAN : CloseDone(t, ok, redisOk)
  \/ \E t \in Tasks : CleanupReturn(t)
  \/ \E t \in Tasks, maxAgeMs \in 0..MaxAgeArg, redisOk \in BOOLEAN :
       CanStart(alone) /\ CleanupExpiredSessions(t, maxAgeMs, redisOk)
  \/ \E t \in Tasks, redisOk \in BOOLEAN : SweepResume(t, redisOk)
  \/ \E t \in Tasks, redisOk \in BOOLEAN :
       CanStart(alone) /\ Shutdown(t, redisOk)
  \/ \E t \in Tasks, redisOk \in BOOLEAN : ShutdownResume(t, redisOk)
  \/ Tick
  \/ \E t \in Tasks : Retire(t)

\* overlapping calls on every session id
Next == Step(SessionIds, FALSE)

Spec == Init /\ [][Next]_vars

\* calls made one after the other
NextSeq == Step(SessionIds, TRUE)

SpecSeq == InitSeq /\ [][NextSeq]_vars

\* overlapping calls on the session id 'default', the one id the tool and
\* resource handlers use
NextRace == Step({"default"}, FALSE)

SpecRace == Init /\ [][NextRace]_vars

\* one session: every configuration, calls one after the other on the id
\* 'default', no sweep and no shutdown
NextOne ==
  \/ \E t \in Tasks, influxOk \in BOOLEAN :
       CanStart(TRUE) /\ GetOrCreateSession(t, "default", influxOk)
  \/ \E t \in Tasks, ok \in BOOLEAN, influxOk \in BOOLEAN :
       ConnectDone(t, ok, influxOk)
  \/ \E t \in Tasks : StoreSession(t)
  \/ \E t \in Tasks, redisOk \in BOOLEAN :
       CanStart(TRUE) /\ Cleanup(t, "default", redisOk)
  \/ \E t \in Tasks, ok \in BOOLEAN, redisOk \in BOOLEAN : CloseDone(t, ok, redisOk)
  \/ \E t \in Tasks : CleanupReturn(t)
  \/ \E t \in Tasks : Retire(t)

SpecOne == InitAll /\ [][NextOne]_vars

\* the server: tool calls, resource reads, HTTP requests, sweeps and SIGINT,
\* one after the other
InitServe ==
  /\ config \in FewConfigs(MaxEnabled)
  /\ apiKey \in {"", "k1"}
  /\ Start

Serve(trs) ==
  \/ \E t \in Tasks, h \in Handlers, argsOk \in BOOLEAN,
        tr \in trs, influxOk \in BOOLEAN :
       CanStart(TRUE) /\ ToolCall(t, h, argsOk, tr, influxOk)
  \/ \E t \in Tasks, parseOk \in BOOLEAN : ToolResume(t, parseOk)
  \/ \E t \in Tasks, ok \in BOOLEAN : DriverDone(t, ok)
  \/ \E t \in Tasks, ok \in BOOLEAN, influxOk \in BOOLEAN :
       ConnectDone(t, ok, influxOk)
  \/ \E t \in Tasks : StoreSession(t)
  \/ \E t \in Tasks, method \in {"POST", "GET", "DELETE"}, key \in Keys,
        sid \in SidHeaders :
       CanStart(TRUE) /\ HttpUnauthorized(t, method, key, sid)
  \/ \E t \in Tasks, method \in {"POST", "GET", "DELETE"}, key \in Keys,
        sid \in SidHeaders, isInit \in BOOLEAN :
       CanStart(TRUE) /\ HttpBadRequest(t, method, key, sid, isInit)
  \/ \E t \in Tasks, key \in Keys, sid \in SidHeaders, isInit \in BOOLEAN,
        influxOk \in BOOLEAN :
       CanStart(TRUE) /\ HttpPostInit(t, key, sid, isInit, influxOk)
  \/ \E t \in Tasks, ok \in BOOLEAN : HttpResume(t, ok)
  \/ \E t \in Tasks, method \in {"POST", "GET"}, key \in Keys,
        sid \in SidHeaders, isInit \in BOOLEAN, ok \in BOOLEAN :
       CanStart(TRUE) /\ HttpHandle(t, method, key, sid, isInit, ok)
  \/ \E t \in Tasks, key \in Keys, sid \in SidHeaders, redisOk \in BOOLEAN :
       CanStart(TRUE) /\ HttpDelete(t, key, sid, redisOk)
  \/ \E t \in Tasks, ok \in BOOLEAN, redisOk \in BOOLEAN : CloseDone(t, ok, redisOk)
  \/ \E t \in Tasks : CleanupReturn(t)
  \/ \E t \in Tasks, maxAgeMs \in 0..MaxAgeArg, redisOk \in BOOLEAN :
       CanStart(TRUE) /\ CleanupExpiredSessions(t, maxAgeMs, redisOk)
  \/ \E t \in Tasks, redisOk \in BOOLEAN : SweepResume(t, redisOk)
  \/ \E t \in Tasks, redisOk \in BOOLEAN :
       CanStart(TRUE) /\ Shutdown(t, redisOk)
  \/ \E t \in Tasks, redisOk \in BOOLEAN : ShutdownResume(t, redisOk)
  \/ Tick
  \/ \E t \in Tasks : Retire(t)

\* the requests of both modes: over the stdio transport and over HTTP
NextServe == Serve(TransportIds \cup {NoSid})

SpecServe == InitServe /\ [][NextServe]_vars

\* HTTP mode: every tool call and resource read arrives over a registered
\* HTTP transport
NextHttp == Serve(TransportIds)

SpecHttp == InitServe /\ [][NextHttp]_vars

\* tool calls and resource reads that overlap each other, a sweep and the
\* SIGINT handler
NextMix ==
  \/ \E t \in Tasks, h \in Handlers, argsOk \in BOOLEAN, influxOk \in BOOLEAN :
       ToolCall(t, h, argsOk, NoSid, influxOk)
  \/ \E t \in Tasks, parseOk \in BOOLEAN : ToolResume(t, parseOk)
  \/ \E t \in Tasks, ok \in BOOLEAN : DriverDone(t, ok)
  \/ \E t \in Tasks, ok \in BOOLEAN, influxOk \in BOOLEAN :
       ConnectDone(t, ok, influxOk)
  \/ \E t \in Tasks : StoreSession(t)
  \/ \E t \in Tasks, ok \in BOOLEAN, redisOk \in BOOLEAN : CloseDone(t, ok, redisOk)
  \/ \E t \in Tasks, maxAgeMs \in 0..MaxAgeArg, redisOk \in BOOLEAN :
       CleanupExpiredSessions(t, maxAgeMs, redisOk)
  \/ \E t \in Tasks, redisOk \in BOOLEAN : SweepResume(t, redisOk)
  \/ \E t \in Tasks, redisOk \in BOOLEAN : Shutdown(t, redisOk)
  \/ \E t \in Tasks, redisOk \in BOOLEAN : ShutdownResume(t, redisOk)
  \/ Tick
  \/ \E t \in Tasks : Retire(t)

SpecMix == Init /\ [][NextMix]_vars

\* overlapping getOrCreateSession calls and nothing else; the event loop runs
\* the continuation of every settled promise, and nothing bounds the time a
\* connection attempt takes to settle
NextLive ==
  \/ \E t \in Tasks, sid \in SessionIds, influxOk \in BOOLEAN :
       GetOrCreateSession(t, sid, influxOk)
  \/ \E t \in Tasks, ok \in BOOLEAN, influxOk \in BOOLEAN :
       ConnectDone(t, ok, influxOk)
  \/ \E t \in Tasks : StoreSession(t)
  \/ \E t \in Tasks : Retire(t)

SpecLive ==
  /\ InitSeq /\ [][NextLive]_vars
  /\ \A t \in Tasks : SF_vars(StoreSession(t)) /\ WF_vars(Retire(t))

TypeOK ==
  /\ now \in 0..MaxTime
  /\ registry \in [SessionIds -> 0..MaxObjs]
  /\ \A t \in Tasks : tasks[t].kind \in {"idle", "goc", "cleanup", "sweep", "shutdown",
                                       "tool", "http"}
  /\ transports \subseteq TransportIds

\* ---- properties ----

Built(o) == objs[o].status = "built"
Connectable(k) == config[k].enabled /\ config[k].params
Populated(o) == {k \in Closable : objs[o].clients[k]}
Finished(t, kind) == tasks[t].kind = kind /\ tasks[t].pc = "done"

\* C1: calls of getOrCreateSession for one session id made one after the
\* other, with no removal of the id in between, return the same object: the
\* object returned for an id changes only after the id was removed.
C1_SameSession ==
  [][\A s \in SessionIds :
       (lastRet[s] # 0 /\ lastRet'[s] # 0) => lastRet'[s] = lastRet[s]]_vars

\* a call that found the entry stored by an earlier call and returned it
C1_Witness ==
  \E t \in Tasks :
    /\ Finished(t, "goc") /\ tasks[t].obj = 0
    /\ tasks[t].result # 0 /\ tasks[t].result = lastRet[tasks[t].sid]

\* C2: the slot of a backend whose enabled flag is false is empty in every
\* session of the registry, whether or not its parameters are set.
C2_DisabledSlotEmpty ==
  \A s \in SessionIds, k \in Kinds :
    (registry[s] # 0 /\ ~config[k].enabled)
      => /\ ~objs[registry[s]].clients[k]
         /\ handle[registry[s]][k] = "none"

\* a stored session with a populated slot and a disabled backend with parameters
C2_Witness ==
  \E s \in SessionIds, k, k2 \in Kinds :
    /\ registry[s] # 0
    /\ ~config[k].enabled /\ config[k].params
    /\ objs[registry[s]].clients[k2]

\* C3: in a created session every backend that is enabled and has its
\* parameters was attempted, whichever other attempts failed, and its slot is
\* populated exactly when its own attempt succeeded.
C3_FailureIsolation ==
  \A o \in Objs :
    Built(o) =>
      \A k \in Kinds :
        Connectable(k) =>
          /\ handle[o][k] # "none"
          /\ objs[o].clients[k] <=> handle[o][k] # "failed"

\* postgres and mongodb failed, redis and influxdb were connected after that
C3_Witness ==
  \E o \in Objs :
    /\ Built(o)
    /\ handle[o]["postgres"] = "failed" /\ handle[o]["mongodb"] = "failed"
    /\ objs[o].clients["redis"] /\ objs[o].clients["influxdb"]

\* C4: a getOrCreateSession call that had to create the session returns
\* normally whatever connection attempts failed: the session it returns is
\* stored under its id and the slots of the failed attempts are empty.
C4_NoThrowOnConnectFailure ==
  \A t \in Tasks :
    Finished(t, "goc") =>
      /\ ~tasks[t].threw
      /\ tasks[t].result # 0
      /\ registry[tasks[t].sid] = tasks[t].result
      /\ Built(tasks[t].result)
      /\ \A k \in Kinds :
           handle[tasks[t].result][k] = "failed" => ~objs[tasks[t].result].clients[k]

\* a creating call has returned a session all of whose attempts failed
C4_Witness ==
  \E t \in Tasks :
    /\ Finished(t, "goc") /\ tasks[t].obj # 0
    /\ \A k \in Kinds : handle[tasks[t].result][k] = "failed"

\* C5: when cleanup() has run, the close of every non-empty postgres, redis
\* and mongodb slot was called, also after the close of an earlier one failed,
\* and every failure was logged and none raised by cleanup().
C5_CleanupIndependent ==
  \A t \in Tasks :
    tasks[t].pc = "ret_cleanup" =>
      /\ tasks[t].tried = Populated(tasks[t].obj)
      /\ tasks[t].logged = tasks[t].failed
      /\ ~tasks[t].cthrew

\* the postgres close failed and the redis and mongodb closes were still called
C5_Witness ==
  \E t \in Tasks :
    /\ tasks[t].pc = "ret_cleanup"
    /\ "postgres" \in tasks[t].failed
    /\ {"redis", "mongodb"} \subseteq tasks[t].tried

\* C6: a cleanup() called on a session that had already been cleaned up
\* returns without raising.
C6_SecondCleanupNoThrow ==
  \A t \in Tasks :
    (Finished(t, "cleanup") /\ tasks[t].second) => ~tasks[t].threw

\* a second cleanup has returned after its close of a closed handle failed
C6_Witness ==
  \E t \in Tasks :
    /\ Finished(t, "cleanup") /\ tasks[t].second
    /\ \E k \in tasks[t].failed : handle[tasks[t].obj][k] = "closed"

\* the sessions of the registry at the call of a sweep that were expired then
ExpiredAtCall(sn) ==
  {s \in SessionIds :
     sn.reg[s] # 0 /\ sn.now - sn.objs[sn.reg[s]].createdAt > sn.maxAge}

\* C7: when cleanupExpiredSessions has returned, the registry holds exactly
\* the sessions of the call whose age was at most maxAgeMs, each unchanged.
C7_SweepExact ==
  \A t \in Tasks :
    Finished(t, "sweep") =>
      LET sn == tasks[t].snap IN
      \A s \in SessionIds :
        IF s \in ExpiredAtCall(sn)
        THEN registry[s] = 0
        ELSE /\ registry[s] = sn.reg[s]
             /\ sn.reg[s] # 0 =>
                  /\ objs[sn.reg[s]] = sn.objs[sn.reg[s]]
                  /\ handle[sn.reg[s]] = sn.handle[sn.reg[s]]

\* a sweep removed an older session and kept one whose age equals maxAgeMs
C7_Witness ==
  \E t \in Tasks :
    /\ Finished(t, "sweep")
    /\ LET sn == tasks[t].snap IN
       /\ ExpiredAtCall(sn) # {}
       /\ \E s \in SessionIds :
            /\ registry[s] # 0
            /\ sn.now - objs[registry[s]].createdAt = sn.maxAge

\* C8: when cleanupExpiredSessions has returned, it has raised nothing and
\* the cleanup of every session that was expired at the call has run and its
\* entry is gone, also when a close of an earlier expired session failed.
C8_SweepVisitsAll ==
  \A t \in Tasks :
    Finished(t, "sweep") =>
      /\ ~tasks[t].threw
      /\ \A s \in ExpiredAtCall(tasks[t].snap) :
           /\ objs[tasks[t].snap.reg[s]].cleaned
           /\ registry[s] # tasks[t].snap.reg[s]

\* two sessions were expired, a close of the first failed, both are gone
C8_Witness ==
  \E t \in Tasks :
    /\ Finished(t, "sweep")
    /\ LET sn == tasks[t].snap IN
       /\ Len(sn.order) = 2
       /\ ExpiredAtCall(sn) = SessionIds
       /\ \E k \in Closable :
            /\ sn.handle[sn.reg[sn.order[1]]][k] = "open"
            /\ handle[sn.reg[sn.order[1]]][k] = "open"
       /\ \A s \in SessionIds : registry[s] = 0

\* C9 as claimed: every populated postgres, redis and mongodb slot of a
\* session that cleanupExpiredSessions removed is closed.
C9_SweptAllClosed ==
  \A o \in swept :
    /\ objs[o].cleaned
    /\ \A k \in Populated(o) : handle[o][k] = "closed"

\* C9 as amended: cleanupExpiredSessions deletes an entry only after the
\* cleanup() of its session has run to its end; by then the close of every
\* populated postgres, redis and mongodb slot was called, the slot is closed
\* when that close did not fail, and the failures were logged.
C9_SweptAfterCleanup ==
  [][\A s \in SessionIds :
       (registry[s] # 0 /\ registry'[s] = 0 /\ ~exited')
         => \E t \in Tasks :
              /\ tasks[t].kind = "sweep" /\ tasks[t].pc = "ret_cleanup"
              /\ tasks[t].obj = registry[s]
              /\ objs[registry[s]].cleaned
              /\ tasks[t].tried = Populated(registry[s])
              /\ tasks[t].logged = tasks[t].failed
              /\ \A k \in tasks[t].tried \ tasks[t].failed :
                   handle[registry[s]][k] = "closed"]_vars

\* a swept session with a closed slot and a slot whose close failed
C9_Witness ==
  \E o \in swept :
    \E k, k2 \in Populated(o) :
      handle[o][k] = "closed" /\ handle[o][k2] = "open"

\* a cleanup() of session object o has closes still to call
Cleaning(o) ==
  \E t \in Tasks :
    tasks[t].obj = o /\ tasks[t].pc \in {"close_postgres", "close_mongodb"}

\* C10: the store of getOrCreateSession overwrites the entry another call
\* stored meanwhile, and once no cleanup() of the overwritten session object
\* is in progress, no cleanup, sweep or shutdown ever closes its handles.
C10_LastWriteWinsAndLeak ==
  [][/\ \A t \in Tasks :
          (tasks[t].pc = "ret_create" /\ tasks'[t].pc = "done")
            => registry'[tasks[t].sid] = tasks[t].obj
     /\ \A o \in lost :
          /\ \A s \in SessionIds : registry'[s] # o
          /\ ~Cleaning(o) => (handle'[o] = handle[o] /\ ~Cleaning(o)')]_vars

\* two overlapping calls built a bundle each; the process has exited and the
\* handle of the overwritten bundle is still open, its cleanup never ran
C10_Witness ==
  \E o \in lost, k \in Kinds :
    /\ exited
    /\ Built(o) /\ objs[o].clients[k] /\ handle[o][k] = "open"
    /\ ~objs[o].cleaned
    /\ \E o2 \in Objs \ {o} : Built(o2) /\ objs[o2].id = objs[o].id
                               /\ objs[o2].clients[k]

\* C16: a getOrCreateSession call made when its id is in the registry returns
\* the stored session at once: it starts no connection attempt, makes no call
\* on any handle, and leaves the registry, the stored session and every handle
\* as they were.
C16_HitChangesNothing ==
  [][\A t \in Tasks, s \in SessionIds :
       (/\ tasks[t].kind = "idle" /\ tasks'[t].kind = "goc"
        /\ tasks'[t].sid = s /\ registry[s] # 0)
         => /\ tasks'[t].pc = "done" /\ tasks'[t].obj = 0
            /\ tasks'[t].result = registry[s]
            /\ registry' = registry /\ regOrder' = regOrder
            /\ objs' = objs /\ handle' = handle]_vars

\* a call returned a stored session that has no open handle and a failed one
C16_Witness ==
  \E t \in Tasks, k \in Kinds :
    /\ Finished(t, "goc") /\ tasks[t].obj = 0 /\ tasks[t].result # 0
    /\ handle[tasks[t].result][k] = "failed"
    /\ \A k2 \in Kinds : handle[tasks[t].result][k2] # "open"

\* C17: in one session creation at most one connection attempt is pending,
\* and an attempt has started only when the attempt of every backend before
\* it in the order postgres, redis, mongodb, influxdb that is enabled and has
\* its parameters has succeeded or failed.
C17_AttemptsInOrder ==
  \A o \in Objs :
    /\ Cardinality({k \in Kinds : handle[o][k] = "connecting"}) <= 1
    /\ \A i, j \in 1..Len(KindOrder) :
         (i < j /\ handle[o][KindOrder[j]] # "none"
                /\ Connectable(KindOrder[i]))
           => handle[o][KindOrder[i]] \in {"open", "failed", "closed"}

\* mongodb is being connected after postgres failed and redis succeeded
C17_Witness ==
  \E o \in Objs :
    /\ objs[o].status = "building"
    /\ handle[o]["postgres"] = "failed" /\ handle[o]["redis"] = "open"
    /\ handle[o]["mongodb"] = "connecting"

\* a handler has returned or raised
Handled(t) == tasks[t].kind = "tool" /\ tasks[t].pc = "done"
StatusHandlers == {"connection-status", "sessions-active"}

\* C11 as claimed: every tool call whose operation failed (empty slot,
\* unparsable JSON argument, driver call rejected) returned a payload with
\* success: false and an error message.
C11_FailureEnvelope ==
  \A t \in Tasks :
    (/\ Handled(t) /\ tasks[t].tool \in ToolHandlers
     /\ tasks[t].cause \in {"slot", "parse", "driver"})
      => /\ tasks[t].payload.success = "false"
         /\ tasks[t].payload.message

\* C12: no handler raises to the transport, and a handler in which the
\* session resolution, the slot check, the parsing or a driver call failed
\* has returned a payload that carries the error message.
C12_NoEscape ==
  \A t \in Tasks :
    Handled(t) =>
      /\ ~tasks[t].escaped
      /\ tasks[t].cause \in {"resolve", "slot", "parse", "driver"}
           => (tasks[t].payload.kind \in {"json", "text"}
               /\ tasks[t].payload.message)

\* the driver call of a resource handler and the second driver call of a
\* tool handler were rejected and both handlers returned the error as data
C12_Witness ==
  \E t \in Tasks :
    /\ Handled(t) /\ tasks[t].cause = "driver" /\ tasks[t].payload.message
    /\ \/ tasks[t].tool = "postgres-databases"
       \/ tasks[t].tool = "redis_set_key" /\ tasks[t].calls = 2

C14_AbsentIsNoOp ==
  [][\A t \in Tasks :
       /\ (/\ tasks[t].kind = "idle" /\ tasks'[t].tool \in StatusHandlers
           /\ registry[ToolSessionId(tasks'[t].tr)] = 0)
            => (/\ registry' = registry /\ objs' = objs /\ handle' = handle
                /\ ~tasks'[t].escaped)
       /\ (/\ tasks[t].kind = "idle" /\ tasks'[t].method = "DELETE"
           /\ tasks'[t].status = 200 /\ registry[tasks'[t].sid] = 0)
            => (registry' = registry /\ objs' = objs /\ handle' = handle)
       /\ (/\ tasks[t].tool \in StatusHandlers
           /\ tasks[t].pc = "ret_create" /\ tasks'[t].pc = "done")
            => registry' = registry]_vars

\* the request of task t carries the configured API key
HasKey(t) == tasks[t].key # "" /\ tasks[t].key = apiKey

Stage(ob, o) ==
  IF ob[o].status = "free" THEN 0
  ELSE IF ob[o].status = "building" THEN 1
  ELSE IF ~ob[o].cleaned THEN 2
  ELSE 3

\* C18: a session never moves back through UNINITIALIZED, INITIALIZING,
\* READY, CLEANED_UP, it becomes READY from INITIALIZING whatever slots are
\* empty, and once it is READY no slot is filled and no handle is connected
\* again: a handle of an existing session only ever changes by being closed.
C18_ForwardOnly ==
  [][\A o \in Objs :
       /\ Stage(objs', o) >= Stage(objs, o)
       /\ (Stage(objs, o) = 1 /\ Stage(objs', o) # 1) => Stage(objs', o) = 2
       /\ Stage(objs, o) >= 2 =>
            \A k \in Kinds :
              /\ objs'[o].clients[k] = objs[o].clients[k]
              /\ handle'[o][k] \in {handle[o][k], "closed"}]_vars

\* a tool call found the slot of a failed attempt empty in a stored session
\* and failed, and the slot is as the failed attempt left it
C18_Witness ==
  \E t \in Tasks :
    /\ Handled(t) /\ tasks[t].cause = "slot" /\ tasks[t].obj = 0
    /\ Built(tasks[t].result)
    /\ handle[tasks[t].result][Backend(tasks[t].tool)] = "failed"
    /\ \E o \in Objs : Stage(objs, o) = 3

\* C19: no step changes the id, the createdAt or the populated slots of a
\* session that has been stored, and an entry of the registry changes only
\* by being deleted or by the store of a session that was just created
\* under that id.
C19_StoredSessionImmutable ==
  [][/\ \A o \in Objs :
          Built(o) => /\ Built(o)'
                      /\ objs'[o].id = objs[o].id
                      /\ objs'[o].createdAt = objs[o].createdAt
                      /\ objs'[o].clients = objs[o].clients
     /\ \A s \in SessionIds :
          registry'[s] # registry[s] =>
            \/ registry'[s] = 0
            \/ /\ objs[registry'[s]].status = "building"
               /\ objs'[registry'[s]].id = s]_vars

\* the session of a closed transport has been cleaned up and its entry
\* deleted, and its slots are still populated
C19_Witness ==
  \E o \in Objs, k \in Closable :
    /\ Built(o) /\ objs[o].cleaned /\ objs[o].id \in TransportIds
    /\ registry[objs[o].id] = 0 /\ o \notin swept
    /\ objs[o].clients[k] /\ handle[o][k] = "closed"
    /\ registry["default"] # 0

\* C20: every handler resolves its session under the id 'default' whatever
\* transport session its request arrived on, so the sessions the handlers
\* create are all stored under 'default'.
C20_FixedSessionId ==
  \A t \in Tasks :
    tasks[t].tool # NoTool =>
      /\ tasks[t].sid \in {NoSid, "default"}
      /\ tasks[t].obj # 0 => objs[tasks[t].obj].id = "default"
      /\ tasks[t].result # 0 => objs[tasks[t].result].id = "default"

\* a tool call that arrived on an HTTP transport session created the session
\* 'default' beside the session of the transport
C20_Witness ==
  \E t \in Tasks :
    /\ Handled(t) /\ tasks[t].tr \in transports /\ tasks[t].obj # 0
    /\ registry["default"] = tasks[t].result
    /\ registry[tasks[t].tr] \notin {0, tasks[t].result}

\* ---- empty slots ----

C26_NoInitializingEntry ==
  \A o \in Objs :
    ((\E s \in SessionIds : registry[s] = o \/ lastRet[s] = o)
       \/ (\E t \in Tasks : tasks[t].pc = "done" /\ tasks[t].result = o))
      => /\ Built(o)
         /\ \A k \in Kinds : handle[o][k] # "connecting"
         /\ \A k \in Kinds : Connectable(k) => handle[o][k] # "none"
         /\ \A t \in Tasks :
              tasks[t].obj = o =>
                tasks[t].pc \notin {"conn_postgres", "conn_redis", "conn_mongodb",
                                    "ret_create"}

\* a session is stored under 'default' while a second creation for the same
\* id is waiting for a connection attempt
C26_Witness ==
  /\ registry["default"] # 0
  /\ \E t \in Tasks :
       /\ tasks[t].kind = "goc" /\ tasks[t].sid = "default"
       /\ tasks[t].pc \in {"conn_postgres", "conn_redis", "conn_mongodb"}
       /\ tasks[t].obj # registry["default"]
       /\ objs[tasks[t].obj].status = "building"
\* ---- the POST route ----

C24_CloseRemovesOwnSession ==
  [][\A s \in TransportIds :
       (s \in transports /\ s \notin transports') =>
         LET o == registry[s] IN
         /\ registry'[s] = 0
         /\ \A s2 \in SessionIds \ {s} :
              /\ registry'[s2] = registry[s2]
              /\ s2 \in transports' <=> s2 \in transports
         /\ \A o2 \in Objs \ {o} : objs'[o2] = objs[o2] /\ handle'[o2] = handle[o2]
         /\ o # 0 =>
              /\ ~objs[o].cleaned /\ ~Cleaning(o)
              /\ \A u \in Tasks : tasks[u].obj = o => tasks[u].kind = "http"
              /\ Cardinality({u \in Tasks :
                                /\ tasks[u].kind = "idle"
                                /\ tasks'[u].kind = "cleanup"
                                /\ tasks'[u].obj = o}) = 1
              /\ \A u \in Tasks :
                   (tasks'[u].obj = o /\ tasks'[u].kind # "http")
                     => tasks[u].kind = "idle"]_vars

\* the transport and the entry of its session are gone while the cleanup of
\* the session still waits for a close, and the session 'default' is stored
C24_Witness ==
  \E u \in Tasks, s \in TransportIds :
    /\ tasks[u].kind = "cleanup" /\ tasks[u].sid = s
    /\ tasks[u].pc \in {"close_postgres", "close_mongodb"}
    /\ ~objs[tasks[u].obj].cleaned
    /\ s \notin transports /\ registry[s] = 0
    /\ registry["default"] # 0
\* ---- SIGINT ----

\* C25: the SIGINT handler cleans the sessions of the registry up one at a
\* time, in the order of the Map, each cleanup having run to its end before
\* the next starts and whatever closes failed; the process exits in the step
\* that empties the registry, when every entry has been visited and cleaned.
C25_ShutdownCleansAll ==
  [][/\ \A t \in Tasks :
          (tasks'[t].kind = "shutdown" /\ tasks'[t].pc # "done") =>
            /\ ~exited'
            /\ tasks'[t].pos \in 1..Len(regOrder')
            /\ tasks'[t].obj = registry'[regOrder'[tasks'[t].pos]]
            /\ \A i \in 1..(tasks'[t].pos - 1) :
                 /\ objs'[registry'[regOrder'[i]]].cleaned
                 /\ ~\E u \in Tasks :
                       /\ tasks'[u].obj = registry'[regOrder'[i]]
                       /\ tasks'[u].pc \in {"close_postgres", "close_mongodb"}
     /\ (~exited /\ exited') =>
          /\ \E t \in Tasks :
               /\ tasks'[t].kind = "shutdown" /\ tasks'[t].pc = "done"
               /\ tasks'[t].pos = Len(regOrder)
          /\ \A s \in SessionIds :
               /\ registry[s] # 0 =>
                    /\ InSeq(s, regOrder)
                    /\ objs[registry[s]].cleaned
                    /\ ~Cleaning(registry[s])
               /\ registry'[s] = 0]_vars

\* the process has exited after the cleanup of two sessions, in one of which
\* a close had failed
C25_Witness ==
  /\ exited
  /\ \E t \in Tasks : tasks[t].kind = "shutdown" /\ tasks[t].pos = 2
  /\ \E o1, o2 \in Objs :
       /\ o1 # o2 /\ objs[o1].cleaned /\ objs[o2].cleaned
       /\ \E k \in Closable : objs[o1].clients[k] /\ handle[o1][k] = "open"
\* ---- connection attempts that do not settle ----

\* the call is in an await of a connection attempt
ConnPcs == {"conn_postgres", "conn_redis", "conn_mongodb"}
\* getOrCreateSession of task t is creating a session
Creating(t) ==
  tasks[t].kind = "goc" /\ tasks[t].obj # 0 /\ tasks[t].pc # "done"
\* it has stored the session it created and returned it
Returned(t) ==
  /\ Finished(t, "goc") /\ ~tasks[t].threw
  /\ tasks[t].obj # 0 /\ tasks[t].result = tasks[t].obj
  /\ registry[tasks[t].sid] = tasks[t].obj /\ Built(tasks[t].obj)

\* C22: a getOrCreateSession call that creates a session and whose
\* connection attempts all settle stores the session and returns, whether or
\* not the attempts of other calls settle; while an attempt of the call is
\* pending the call has not returned and its session is not in the registry,
\* and it leaves the await only when that attempt has succeeded or failed.
C22_CreationCompletes ==
  /\ \A t \in Tasks :
       ([]<>(tasks[t].pc \notin ConnPcs)) => (Creating(t) ~> Returned(t))
  /\ [][\A t \in Tasks :
          tasks[t].pc \in ConnPcs =>
            LET o == tasks[t].obj
                k == KindOrder[StageOfPc(tasks[t].pc)]
            IN /\ handle[o][k] = "connecting"
               /\ objs[o].status = "building"
               /\ \A s \in SessionIds : registry[s] # o /\ registry'[s] # o
               /\ tasks'[t].pc # "done"
               /\ tasks'[t].pc # tasks[t].pc
                    => handle'[o][k] \in {"open", "failed"}]_vars

\* a call waits for a connection attempt while a later call for the same id
\* has created, stored and returned a session of its own
C22_Witness ==
  \E t, u \in Tasks :
    /\ tasks[t].pc \in ConnPcs
    /\ Returned(u) /\ tasks[u].sid = tasks[t].sid
    /\ \E k \in Kinds : handle[tasks[u].obj][k] = "open"

\* ---- handlers and cleanup ----

\* cleanup() of session object o has been called
CleanupStarted(o) ==
  \/ objs[o].cleaned
  \/ \E u \in Tasks :
       tasks[u].obj = o /\ tasks[u].kind \in {"cleanup", "sweep", "shutdown"}

\* C27: no tool or resource handler starts a driver call on a client of a
\* session whose cleanup() has been called before, whatever sweep or
\* shutdown overlaps the handler.
C27_NoCallAfterCleanupStarted ==
  [][\A t \in Tasks :
       (/\ tasks'[t].kind = "tool" /\ tasks'[t].pc = "call"
        /\ tasks[t].pc # "call" \/ tasks'[t].calls # tasks[t].calls)
         => ~CleanupStarted(tasks'[t].result)]_vars

\* ---- a sweep and the calls that overlap it ----

\* C28: when a sweep deletes a registry entry after its await of cleanup(),
\* the entry holds the session object the sweep found expired and cleaned
\* up: a session stored under the same id while the sweep was waiting is not
\* removed.
C28_SweepDeletesWhatItCleaned ==
  [][\A t \in Tasks :
       (/\ tasks[t].kind = "sweep" /\ tasks[t].pc = "ret_cleanup"
        /\ Len(tasks'[t].expired) < Len(tasks[t].expired))
         => \A s \in SessionIds :
              (registry[s] # 0 /\ registry'[s] = 0)
                => /\ registry[s] = tasks[t].obj
                   /\ objs[registry[s]].cleaned]_vars

\* ---- sessions left behind ----

\* C29: in HTTP mode, when the last registered transport closes, the
\* registry is empty: no session, the one the tool calls made over the
\* transports created included, is left with open backend connections.
C29_EmptyAfterLastClose ==
  [][(transports # {} /\ transports' = {}) =>
       \A s \in SessionIds : registry'[s] = 0]_vars
====
